---- MODULE Spec2Model ----
(***************************************************************************)
(* Model of streaming_server.py: the per-connection websocket handler      *)
(* `handle` (audio buffering, decode trigger, overlap trimming, transcript *)
(* send) and the detached enrichment task                                  *)
(* `send_transcripts_to_llm_and_print`.                                    *)
(*                                                                         *)
(* Conventions                                                             *)
(*  - time.time() is read off a global integer clock, in seconds.          *)
(*  - A byte string is a sequence of segments [msg, lo, hi]: the bytes     *)
(*    lo..hi-1 of the payload of the msg-th audio message of the           *)
(*    connection.  Every byte keeps its identity, lengths are exact.       *)
(*  - A text string is a sequence of tokens (words, " ", "\n", JSON        *)
(*    punctuation, quoted JSON literals).                                  *)
(*  - asyncio runs one coroutine at a time: an action is the code between  *)
(*    two suspension points; decode_pcm is a blocking call that holds the  *)
(*    event loop from its start to its return.                             *)
(***************************************************************************)
EXTENDS Integers, Sequences, FiniteSets, TLC

\* ------------------------------------------------------------- CONFIG
SAMPLE_RATE == 16000
SAMPLE_WIDTH == 2
DECODE_INTERVAL_SECONDS == 6
OVERLAP_SECONDS == 1
\* the literal 2.0 of the trigger condition
MIN_DURATION_SECONDS == 2

\* ------------------------------------------------------------- bounds
\* last value of the clock
MaxTime == 12
\* seconds between two readings of the clock that differ
TickStep == 3
\* messages the clients send, all connections together
MaxMsgs == 3

\* connection slots, numbered in the order the server accepts them
Conns == {1, 2}

\* ------------------------------------------------------------- byte strings
Min(a, b) == IF a <= b THEN a ELSE b

SegLen(s) == s.hi - s.lo

RECURSIVE BufLen(_)
\* len(buffer)
BufLen(b) == IF b = <<>> THEN 0 ELSE SegLen(Head(b)) + BufLen(Tail(b))

RECURSIVE DropBytes(_, _)
\* b[d:] for 0 <= d <= len(b)
DropBytes(b, d) ==
    IF d = 0 \/ b = <<>> THEN b
    ELSE IF SegLen(Head(b)) <= d THEN DropBytes(Tail(b), d - SegLen(Head(b)))
    ELSE <<[Head(b) EXCEPT !.lo = @ + d]>> \o Tail(b)

RECURSIVE FirstBytes(_, _)
FirstBytes(b, n) ==
    IF n = 0 \/ b = <<>> THEN <<>>
    ELSE IF SegLen(Head(b)) <= n
         THEN <<Head(b)>> \o FirstBytes(Tail(b), n - SegLen(Head(b)))
    ELSE <<[Head(b) EXCEPT !.hi = Head(b).lo + n]>>
\* b[-n:] for n >= 0, as Python slices: -0 is 0, so n = 0 keeps everything
LastBytes(b, n) ==
    IF n = 0 \/ n >= BufLen(b) THEN b ELSE DropBytes(b, BufLen(b) - n)

\* the bytes base64.b64decode returns for the k-th audio message, n bytes long
Payload(k, n) == IF n = 0 THEN <<>> ELSE <<[msg |-> k, lo |-> 0, hi |-> n]>>

\* buffer.extend(pcm)
Extend(b, pcm) == b \o pcm

\* ------------------------------------------------------------- inbound messages
\* valid : json.loads accepts the text
\* obj   : the JSON value is an object (has .get)
\* type  : data.get("type"); "none" when the key is absent
\* fields: the keys the branch subscripts are present
\*         (CRASH_LOG: message, source, lineno; audio: data)
\* b64ok : base64.b64decode accepts data["data"]
\* len   : number of bytes the payload decodes to
\* rate  : the sample rate the message reports, 0 when it reports none
Msg(v, o, t, f, b, n) ==
    [valid |-> v, obj |-> o, type |-> t, fields |-> f, b64ok |-> b, len |-> n,
     rate |-> 0]

\* a metadata message reporting the client's capture rate r
Metadata(r) == [Msg(TRUE, TRUE, "metadata", TRUE, TRUE, 0) EXCEPT !.rate = r]

\* the capture rates clients report: the server's own and a browser's default
SourceRates == {SAMPLE_RATE, 44100}

\* payload sizes: empty, one odd byte, the overlap, the minimum window
PayloadLens == {0, 1,
                OVERLAP_SECONDS * SAMPLE_RATE * SAMPLE_WIDTH,
                MIN_DURATION_SECONDS * SAMPLE_RATE * SAMPLE_WIDTH}

AudioMsgs == {Msg(TRUE, TRUE, "audio", TRUE, TRUE, n) : n \in PayloadLens}

\* well-formed messages whose type is not "audio"; the "ping" one carries a
\* data field as an audio message would
OtherMsgs ==
    { Metadata(r) : r \in SourceRates } \cup
    { Msg(TRUE, TRUE, "metadata", TRUE, TRUE, 0),
      Msg(TRUE, TRUE, "ping", TRUE, TRUE, OVERLAP_SECONDS * SAMPLE_RATE * SAMPLE_WIDTH),
      Msg(TRUE, TRUE, "none", TRUE, TRUE, 0),
      Msg(TRUE, TRUE, "CRASH_LOG", TRUE, TRUE, 0) }

MalformedMsgs ==
    { Msg(FALSE, FALSE, "none", FALSE, FALSE, 0),      \* text that is not JSON
      Msg(TRUE, FALSE, "none", FALSE, FALSE, 0),       \* JSON list, number, null
      Msg(TRUE, TRUE, "CRASH_LOG", FALSE, FALSE, 0),   \* CRASH_LOG without message
      Msg(TRUE, TRUE, "audio", FALSE, FALSE, 0),       \* audio without data
      Msg(TRUE, TRUE, "audio", TRUE, FALSE, 0) }       \* audio, data not base64

Msgs == AudioMsgs \cup OtherMsgs \cup MalformedMsgs

\* the exception lines 71-83 raise on message m, "none" when they raise nothing
RaisedBy(m) ==
    IF ~m.valid THEN "JSONDecodeError"
    ELSE IF ~m.obj THEN "AttributeError"
    ELSE IF m.type = "CRASH_LOG" THEN (IF m.fields THEN "none" ELSE "KeyError")
    ELSE IF m.type # "audio" THEN "none"
    ELSE IF ~m.fields THEN "KeyError"
    ELSE IF ~m.b64ok THEN "binascii.Error"
    ELSE "none"

IsAudioLoose(m) == m.type # "CRASH_LOG"
\* the message reaches line 83: neither the CRASH_LOG branch nor the
\* `!= "audio"` branch took `continue`
IsAudio(m) == m.type # "CRASH_LOG" /\ m.type = "audio"

\* ------------------------------------------------------------- decode trigger
\* int(OVERLAP_SECONDS * SAMPLE_RATE * SAMPLE_WIDTH)
KeepNoWidth == OVERLAP_SECONDS * SAMPLE_RATE
keep == OVERLAP_SECONDS * SAMPLE_RATE * SAMPLE_WIDTH

TriggerOr(nowv, last, b) ==
    \/ nowv - last >= DECODE_INTERVAL_SECONDS
    \/ BufLen(b) >= MIN_DURATION_SECONDS * (SAMPLE_RATE * SAMPLE_WIDTH)
\* now - last_decode_time >= DECODE_INTERVAL_SECONDS and duration >= 2.0,
\* with duration = len(buffer) / (SAMPLE_RATE * SAMPLE_WIDTH)
Trigger(nowv, last, b) ==
    /\ nowv - last >= DECODE_INTERVAL_SECONDS
    /\ BufLen(b) >= MIN_DURATION_SECONDS * (SAMPLE_RATE * SAMPLE_WIDTH)

\* ------------------------------------------------------------- text strings
IsSpace(tok) == tok \in {" ", "\n"}

RECURSIVE LStrip(_)
LStrip(s) == IF s # <<>> /\ IsSpace(Head(s)) THEN LStrip(Tail(s)) ELSE s

RECURSIVE RStrip(_)
RStrip(s) ==
    IF s # <<>> /\ IsSpace(s[Len(s)]) THEN RStrip(SubSeq(s, 1, Len(s) - 1)) ELSE s

\* str.strip()
Strip(s) == RStrip(LStrip(s))

\* what the recognizer's stream.result.text can be
RawTexts == { <<>>, <<" ">>, <<"hello">>, <<" ", "world", " ">> }

TruthyAlways(s) == TRUE
\* `if text:` on a str
Truthy(s) == s # <<>>

\* ------------------------------------------------------------- LLM responses
\* Tokens of the strings the enrichment code handles.  A quoted token is one
\* JSON string literal; Unquote gives the Python str it denotes.
FENCE == "~~~"
ESC_NL == "\\n"

QuotedToks == { "\"context\"", "\"command\"", "\"note\"", "\"source\"",
                "\"\"", "\" \"", "\"Entanglement links qubits\"",
                "\"No relevant context extracted\"" }

IsQuoted(tok) == tok \in QuotedToks
IsScalar(tok) == IsQuoted(tok) \/ tok \in {"null", "7"}

Unquote(tok) ==
    CASE tok = "\"context\"" -> <<"context">>
      [] tok = "\"command\"" -> <<"command">>
      [] tok = "\"note\"" -> <<"note">>
      [] tok = "\"source\"" -> <<"source">>
      [] tok = "\"\"" -> <<>>
      [] tok = "\" \"" -> <<" ">>
      [] tok = "\"Entanglement links qubits\""
            -> <<"Entanglement", " ", "links", " ", "qubits">>
      [] tok = "\"No relevant context extracted\""
            -> <<"No", " ", "relevant", " ", "context", " ", "extracted">>

\* len() of one token, in characters
CharLen(tok) ==
    CASE tok \in {" ", "\n", "{", "}", ":", ",", "7", "I", "]"} -> 1
      [] tok \in {"\"\"", ESC_NL, "No", "')"} -> 2
      [] tok \in {FENCE, "\" \""} -> 3
      [] tok \in {"null", "json", "help", "note"} -> 4
      [] tok \in {"Sorry", "links"} -> 5
      [] tok \in {"\"note\"", "cannot", "qubits", "source"} -> 6
      [] tok \in {"context", "command"} -> 7
      [] tok \in {"\"source\"", "relevant"} -> 8
      [] tok \in {"\"context\"", "\"command\"", "extracted"} -> 9
      [] tok = "'message': " -> 11
      [] tok \in {"Entanglement", "'choices': [", "'content': '"} -> 12
      [] tok = "ChatCompletion(content='" -> 24
      [] tok = "\"Entanglement links qubits\"" -> 27
      [] tok = "\"No relevant context extracted\"" -> 31

\* the literal of lines 199 and 354
FALLBACK == <<"No", " ", "relevant", " ", "context", " ", "extracted">>

\* ---- contents a completion can carry
J_CONTEXT == <<"{", "\"context\"", ":", " ", "\"Entanglement links qubits\"", "}">>
J_EMPTY   == <<"{", "\"context\"", ":", " ", "\"\"", "}">>
J_BLANK   == <<"{", "\"context\"", ":", " ", "\" \"", "}">>
J_NULL    == <<"{", "\"context\"", ":", " ", "null", "}">>
J_NOCTX   == <<"{", "\"context\"", ":", " ", "\"No relevant context extracted\"", "}">>
J_COMMAND == <<"{", "\"command\"", ":", " ", "\"Entanglement links qubits\"", "}">>
J_ONEKEY  == <<"{", "\"note\"", ":", " ", "7", "}">>
J_TWOKEYS == <<"{", "\"note\"", ":", " ", "\"\"", ",", " ",
               "\"source\"", ":", " ", "7", "}">>
J_PRETTY  == <<"{", "\n", " ", "\"context\"", ":", " ",
               "\"Entanglement links qubits\"", "\n", "}">>
T_EMBED   == <<"Sorry", ":", "\n">> \o J_CONTEXT
T_FENCED  == <<FENCE, "json", "\n">> \o J_CONTEXT \o <<"\n", FENCE>>
T_FENCE0  == <<FENCE, "\n", FENCE>>
T_PLAIN   == <<"I", " ", "cannot", " ", "help", "\n", "Sorry">>
T_SCALAR  == <<"\"Entanglement links qubits\"">>
T_NONE    == <<>>

Contents == { J_CONTEXT, J_EMPTY, J_BLANK, J_NULL, J_NOCTX, J_COMMAND, J_ONEKEY,
              J_TWOKEYS, J_PRETTY, T_EMBED, T_FENCED, T_FENCE0, T_PLAIN,
              T_SCALAR, T_NONE }

\* ---- shapes of the object client.chat.completions.create returns
\*  "sdk"     : the SDK's object; choices[0].message is an object, not a dict
\*  "dict"    : {"choices": [{"message": {"content": <str>}}]}
\*  "dictlist": {"choices": [{"message": {"content": [{"text": <str>}]}}]}
\*  "dictnum" : {"choices": [{"message": {"content": [{"text": 7}]}}]}
\*  "legacy"  : {"choices": [{"text": <str>}]}
\*  "bare"    : {"choices": []}
Shapes == {"sdk", "dict", "dictlist", "dictnum", "legacy", "bare"}

Resp(sh, body) == [shape |-> sh, content |-> body]

\* every shape with every content
AllResponses == {Resp(sh, body) : sh \in Shapes, body \in Contents}

\* one completion for each way lines 244-383 can end
Responses ==
    { Resp("sdk", J_CONTEXT), Resp("sdk", J_EMPTY), Resp("sdk", T_PLAIN),
      Resp("dict", J_NOCTX), Resp("dict", J_TWOKEYS), Resp("dict", T_FENCE0),
      Resp("dictnum", T_NONE) }

\* repr() of a str inside str(resp): a newline becomes the two characters \n
EscapeNl(s) == [i \in 1..Len(s) |-> IF s[i] = "\n" THEN ESC_NL ELSE s[i]]

\* str(resp)
StrOf(r) ==
    CASE r.shape = "sdk" ->
            <<"ChatCompletion(content='">> \o EscapeNl(r.content) \o <<"')">>
      [] r.shape \in {"dict", "dictlist", "dictnum"} ->
            <<"{", "'choices': [", "{", "'message': ", "{", "'content': '">>
            \o EscapeNl(r.content) \o <<"}", "}", "]", "}">>
      [] r.shape = "legacy" ->
            <<"{", "'choices': [", "{", "'content': '">>
            \o EscapeNl(r.content) \o <<"}", "]", "}">>
      [] r.shape = "bare" -> <<"{", "'choices': [", "]", "}">>

\* lines 245-291: text_str; isstr is FALSE when text_str is bound to a non-str
ExtractText(r) ==
    LET fromMsg ==                                   \* lines 261-271
            CASE r.shape = "dict" -> r.content
              [] r.shape = "dictlist" -> r.content
              [] r.shape = "dictnum" -> <<"7">>
              [] OTHER -> <<>>
        fromKeys ==                                  \* lines 273-282
            IF fromMsg # <<>> THEN fromMsg
            ELSE IF r.shape = "legacy" /\ Strip(r.content) # <<>>
                 THEN Strip(r.content)
                 ELSE <<>>
    IN  IF r.shape = "dictnum" THEN [isstr |-> FALSE, s |-> <<"7">>]
        ELSE IF r.shape = "bare" THEN [isstr |-> TRUE, s |-> StrOf(r)]
        ELSE IF fromKeys # <<>> THEN [isstr |-> TRUE, s |-> fromKeys]
        ELSE [isstr |-> TRUE, s |-> StrOf(r)]        \* lines 285-289

\* index of the first FENCE token after the first token, 0 if none
RECURSIVE FenceFrom(_, _)
FenceFrom(s, i) ==
    IF i > Len(s) THEN 0 ELSE IF s[i] = FENCE THEN i ELSE FenceFrom(s, i + 1)

\* lines 294-297
StripFence(s) ==
    IF s # <<>> /\ s[1] = FENCE /\ FenceFrom(s, 2) # 0
    THEN Strip(SubSeq(s, 2, FenceFrom(s, 2) - 1))
    ELSE s

\* ---- json.loads on the token level: one flat object, or one scalar
NoWs(s) == SelectSeq(s, LAMBDA tok : ~IsSpace(tok))

WellFormedObj(t) ==
    /\ Len(t) >= 2
    /\ t[1] = "{"
    /\ t[Len(t)] = "}"
    /\ LET inner == SubSeq(t, 2, Len(t) - 1)
       IN  \/ inner = <<>>
           \/ /\ Len(inner) % 4 = 3
              /\ \A i \in 1..Len(inner) :
                    CASE i % 4 = 1 -> IsQuoted(inner[i])
                      [] i % 4 = 2 -> inner[i] = ":"
                      [] i % 4 = 3 -> IsScalar(inner[i])
                      [] OTHER -> inner[i] = ","

\* the (key, value) pairs of a well-formed object, in order
PairsOf(t) ==
    LET inner == SubSeq(t, 2, Len(t) - 1)
    IN  [j \in 1..((Len(inner) + 1) \div 4) |->
            [k |-> inner[4 * j - 3], v |-> inner[4 * j - 1]]]

\* json.loads(s): ok = it returned; isdict = it returned a dict
JsonLoads(s) ==
    LET t == NoWs(s)
    IN  IF WellFormedObj(t) THEN [ok |-> TRUE, isdict |-> TRUE, pairs |-> PairsOf(t)]
        ELSE IF Len(t) = 1 /\ IsScalar(t[1])
             THEN [ok |-> TRUE, isdict |-> FALSE, pairs |-> <<>>]
             ELSE [ok |-> FALSE, isdict |-> FALSE, pairs |-> <<>>]

HasKey(pairs, key) == \E i \in 1..Len(pairs) : pairs[i].k = key
\* parsed[key]; a repeated key keeps its last value
Lookup(pairs, key) ==
    pairs[CHOOSE i \in 1..Len(pairs) :
            /\ pairs[i].k = key
            /\ \A j \in (i + 1)..Len(pairs) : pairs[j].k # key].v
NKeys(pairs) == Cardinality({pairs[i].k : i \in 1..Len(pairs)})

\* a Python value: None, or what str() of it gives
PyNone == [isnone |-> TRUE, s |-> <<>>]
PyStr(s) == [isnone |-> FALSE, s |-> s]
\* the value a scalar token parses to
ValueOf(tok) ==
    IF tok = "null" THEN PyNone
    ELSE IF IsQuoted(tok) THEN PyStr(Unquote(tok))
    ELSE PyStr(<<tok>>)

RECURSIVE DumpsPairs(_)
DumpsPairs(pairs) ==
    IF pairs = <<>> THEN <<>>
    ELSE <<Head(pairs).k, ":", " ", Head(pairs).v>>
         \o (IF Len(pairs) > 1 THEN <<",", " ">> ELSE <<>>)
         \o DumpsPairs(Tail(pairs))
\* json.dumps(parsed, ensure_ascii=False)
Dumps(pairs) == <<"{">> \o DumpsPairs(pairs) \o <<"}">>

\* lines 305-316 and 326-333: the value taken from a parsed dict
FromDict(pairs) ==
    IF HasKey(pairs, "\"context\"") THEN ValueOf(Lookup(pairs, "\"context\""))
    ELSE IF HasKey(pairs, "\"command\"") THEN ValueOf(Lookup(pairs, "\"command\""))
    ELSE IF NKeys(pairs) = 1 THEN ValueOf(pairs[Len(pairs)].v)
    ELSE PyStr(Dumps(pairs))

RECURSIVE FirstIdx(_, _, _)
\* s.find(tok) counted in tokens from i, 0 if absent
FirstIdx(s, tok, i) ==
    IF i > Len(s) THEN 0 ELSE IF s[i] = tok THEN i ELSE FirstIdx(s, tok, i + 1)
RECURSIVE LastIdx(_, _, _)
\* s.rfind(tok), 0 if absent
LastIdx(s, tok, i) ==
    IF i < 1 THEN 0 ELSE IF s[i] = tok THEN i ELSE LastIdx(s, tok, i - 1)

\* lines 319-335: the embedded object between the first "{" and the last "}"
BracketScan(s) ==
    LET fb == FirstIdx(s, "{", 1)
        lb == LastIdx(s, "}", Len(s))
    IN  IF fb # 0 /\ lb # 0 /\ lb > fb
        THEN LET p == JsonLoads(SubSeq(s, fb, lb))
             IN  IF p.ok /\ p.isdict THEN FromDict(p.pairs) ELSE PyNone
        ELSE PyNone

\* ---- lines 338-346: the shortest line
RECURSIVE SplitLines(_)
\* str.splitlines()
SplitLines(s) ==
    IF s = <<>> THEN <<>>
    ELSE LET nl == FirstIdx(s, "\n", 1)
         IN  IF nl = 0 THEN <<s>>
             ELSE <<SubSeq(s, 1, nl - 1)>> \o SplitLines(SubSeq(s, nl + 1, Len(s)))

RECURSIVE CharCount(_)
\* len(s)
CharCount(s) == IF s = <<>> THEN 0 ELSE CharLen(Head(s)) + CharCount(Tail(s))

\* len(s.split())
WordCount(s) ==
    Cardinality({i \in 1..Len(s) : ~IsSpace(s[i]) /\ (i = 1 \/ IsSpace(s[i - 1]))})

\* [ln.strip() for ln in text_str.splitlines() if ln.strip()]
NonEmptyLines(s) ==
    LET all == SplitLines(s)
        stripped == [i \in 1..Len(all) |-> Strip(all[i])]
    IN  SelectSeq(stripped, LAMBDA ln : ln # <<>>)

\* (len(a), -len(a.split())) < (len(b), -len(b.split()))
KeyLess(a, b) ==
    \/ CharCount(a) < CharCount(b)
    \/ CharCount(a) = CharCount(b) /\ WordCount(a) > WordCount(b)

\* sorted(lines, key=...)[0]: the first line no other line sorts before
BestLine(lines) ==
    lines[CHOOSE i \in 1..Len(lines) :
            /\ \A j \in 1..Len(lines) : ~KeyLess(lines[j], lines[i])
            /\ \A j \in 1..(i - 1) : KeyLess(lines[i], lines[j])]

\* lines 300-346: context_val for the text the fences were stripped from
ContextVal(s) ==
    LET p == JsonLoads(s)
        first == IF p.ok
                 THEN (IF p.isdict THEN FromDict(p.pairs) ELSE PyNone)
                 ELSE BracketScan(s)
        lines == NonEmptyLines(s)
    IN  IF ~first.isnone THEN first
        ELSE IF lines # <<>> THEN PyStr(BestLine(lines))
        ELSE PyNone

\* lines 360-363: context_out for a context_val that is not None
ContextOut(cv) == Strip(cv.s)

\* ------------------------------------------------------------- state
VARIABLES
    clock,              \* time.time()
    hpc,                \* where each connection's `handle` coroutine stands
    conn,               \* the websocket as the library sees it: "open" / "closed"
    buffer,             \* handle's local `buffer`
    last_decode_time,   \* handle's local `last_decode_time`
    now,                \* handle's local `now`, as the body of the `if` reads it
    text,               \* handle's local `text` while the send is awaited
    exc,                \* the exception that ended `handle`, "none" if none
    nAudio,             \* audio messages appended so far
    nSkip,              \* messages skipped with `continue` so far
    outbox,             \* messages ws.send accepted, in order
    tasks,              \* the enrichment tasks asyncio.create_task made, in order
    connected_at,       \* clock when `handle` started              (history)
    decodes,            \* one record per firing of the trigger     (history)
    reported_rate       \* sample rate of the client's last metadata message,
                        \* 0 when it sent none; the code keeps none  (history)

vars == <<clock, hpc, conn, buffer, last_decode_time, now, text, exc,
          nAudio, nSkip, outbox, tasks, connected_at, decodes,
                   reported_rate>>

\* asyncio.to_thread(_call_llm) runs the request on a worker thread: a task
\* awaiting it does not hold the event loop
TaskHoldsLoopInline(t) == t.st = "requesting"
TaskHoldsLoop(t) == FALSE

LoopHeldNever == FALSE
\* some coroutine is inside a blocking call, so no other coroutine can run
LoopHeld ==
    \/ \E c \in Conns : hpc[c] = "decoding"
    \/ \E c \in Conns : \E i \in 1..Len(tasks[c]) : TaskHoldsLoop(tasks[c][i])

RECURSIVE SumOver(_, _)
SumOver(f, S) ==
    IF S = {} THEN 0
    ELSE LET x == CHOOSE y \in S : TRUE IN f[x] + SumOver(f, S \ {x})

\* messages taken off the connections so far
MsgCount == SumOver(nAudio, Conns) + SumOver(nSkip, Conns)

Init ==
    /\ clock = 0
    /\ hpc = [c \in Conns |-> "idle"]
    /\ conn = [c \in Conns |-> "closed"]
    /\ buffer = [c \in Conns |-> <<>>]
    /\ last_decode_time = [c \in Conns |-> 0]
    /\ now = [c \in Conns |-> 0]
    /\ text = [c \in Conns |-> <<>>]
    /\ exc = [c \in Conns |-> "none"]
    /\ nAudio = [c \in Conns |-> 0]
    /\ nSkip = [c \in Conns |-> 0]
    /\ outbox = [c \in Conns |-> <<>>]
    /\ tasks = [c \in Conns |-> <<>>]
    /\ connected_at = [c \in Conns |-> 0]
    /\ decodes = [c \in Conns |-> <<>>]
    /\ reported_rate = [c \in Conns |-> 0]

\* ------------------------------------------------------------- environment
\* the wall clock advances; it does so during a blocking decode as well
Tick ==
    /\ clock + TickStep <= MaxTime
    /\ clock' = clock + TickStep
    /\ UNCHANGED <<hpc, conn, buffer, last_decode_time, now, text, exc,
                   nAudio, nSkip, outbox, tasks, connected_at, decodes,
                   reported_rate>>

ConnectShared(c) ==
    /\ hpc[c] = "idle"
    /\ \A d \in Conns : d < c => hpc[d] # "idle"
    /\ ~LoopHeld
    /\ hpc' = [hpc EXCEPT ![c] = "wait"]
    /\ conn' = [conn EXCEPT ![c] = "open"]
    /\ buffer' = [d \in Conns |-> <<>>]
    /\ last_decode_time' = [d \in Conns |-> clock]
    /\ connected_at' = [connected_at EXCEPT ![c] = clock]
    /\ UNCHANGED <<clock, now, text, exc, nAudio, nSkip, outbox, tasks, decodes,
                   reported_rate>>
\* websockets.serve accepts a client and starts handle(ws): lines 65-68
Connect(c) ==
    /\ hpc[c] = "idle"
    /\ \A d \in Conns : d < c => hpc[d] # "idle"
    /\ ~LoopHeld
    /\ hpc' = [hpc EXCEPT ![c] = "wait"]
    /\ conn' = [conn EXCEPT ![c] = "open"]
    /\ buffer' = [buffer EXCEPT ![c] = <<>>]
    /\ last_decode_time' = [last_decode_time EXCEPT ![c] = clock]
    /\ connected_at' = [connected_at EXCEPT ![c] = clock]
    /\ UNCHANGED <<clock, now, text, exc, nAudio, nSkip, outbox, tasks, decodes,
                   reported_rate>>

\* the library learns that the client closed the connection; messages that
\* arrived before the close stay queued for the handler
Disconnect(c) ==
    /\ conn[c] = "open"
    /\ hpc[c] \in {"wait", "sending"}
    /\ ~LoopHeld
    /\ conn' = [conn EXCEPT ![c] = "closed"]
    /\ UNCHANGED <<clock, hpc, buffer, last_decode_time, now, text, exc,
                   nAudio, nSkip, outbox, tasks, connected_at, decodes,
                   reported_rate>>

\* ------------------------------------------------------------- handle
\* `handle` ends with exception e: the server closes the connection
Fail(c, e) ==
    /\ hpc' = [hpc EXCEPT ![c] = "failed"]
    /\ exc' = [exc EXCEPT ![c] = e]
    /\ conn' = [conn EXCEPT ![c] = "closed"]

\* one turn of `async for msg in ws` up to the decode call: lines 70-89
Recv(c, m) ==
    /\ hpc[c] = "wait"
    /\ ~LoopHeld
    /\ MsgCount < MaxMsgs
    /\ IF RaisedBy(m) # "none"
       THEN /\ Fail(c, RaisedBy(m))
            /\ UNCHANGED <<clock, buffer, last_decode_time, now, text,
                           nAudio, nSkip, outbox, tasks, connected_at, decodes,
                   reported_rate>>
       ELSE IF ~IsAudio(m)
       THEN /\ nSkip' = [nSkip EXCEPT ![c] = @ + 1]
            /\ reported_rate' = [reported_rate EXCEPT ![c] =
                                     IF m.type = "metadata" /\ m.rate # 0
                                     THEN m.rate ELSE @]
            /\ UNCHANGED <<clock, hpc, conn, buffer, last_decode_time, now, text,
                           exc, nAudio, outbox, tasks, connected_at, decodes>>
       ELSE LET k == nAudio[c] + 1
                buf == Extend(buffer[c], Payload(k, m.len))
            IN  /\ nAudio' = [nAudio EXCEPT ![c] = k]
                /\ buffer' = [buffer EXCEPT ![c] = buf]
                /\ now' = [now EXCEPT ![c] = clock]
                /\ IF Trigger(clock, last_decode_time[c], buf)
                   THEN /\ hpc' = [hpc EXCEPT ![c] = "decoding"]
                        /\ decodes' = [decodes EXCEPT ![c] =
                               Append(@, [at |-> clock, len |-> BufLen(buf),
                                          done |-> FALSE, text |-> <<>>])]
                   ELSE UNCHANGED <<hpc, decodes>>
                /\ UNCHANGED <<clock, conn, last_decode_time, text, exc,
                               nSkip, outbox, tasks, connected_at,
                               reported_rate>>

TranscriptionBlank(t, i) == [type |-> "transcription", body |-> <<>>, task |-> i]
\* the server-to-client message of lines 99-103 (the timestamp is left out);
\* i is the number of the enrichment task line 105 creates for it
Transcription(t, i) == [type |-> "transcription", body |-> t, task |-> i]

DecodeReturnSkipEmpty(c, raw) ==
    /\ hpc[c] = "decoding"
    /\ LET t == Strip(raw)
           n == Len(decodes[c])
       IN  /\ decodes' = [decodes EXCEPT ![c][n].done = TRUE, ![c][n].text = t]
           /\ IF ~Truthy(t)
              THEN /\ hpc' = [hpc EXCEPT ![c] = "wait"]
                   /\ UNCHANGED <<buffer, last_decode_time, conn, text, exc, outbox>>
              ELSE /\ buffer' = [buffer EXCEPT ![c] = LastBytes(@, keep)]
                   /\ last_decode_time' = [last_decode_time EXCEPT ![c] = now[c]]
                   /\ IF conn[c] = "open"
                      THEN /\ outbox' = [outbox EXCEPT ![c] =
                                   Append(@, Transcription(t, Len(tasks[c]) + 1))]
                           /\ hpc' = [hpc EXCEPT ![c] = "sending"]
                           /\ text' = [text EXCEPT ![c] = t]
                           /\ UNCHANGED <<conn, exc>>
                      ELSE /\ Fail(c, "ConnectionClosed")
                           /\ UNCHANGED <<text, outbox>>
    /\ UNCHANGED <<clock, now, nAudio, nSkip, tasks, connected_at, reported_rate>>
\* decode_pcm returns raw text: lines 60, 90-103 up to the awaited send
DecodeReturn(c, raw) ==
    /\ hpc[c] = "decoding"
    /\ LET t == Strip(raw)
           n == Len(decodes[c])
       IN  /\ buffer' = [buffer EXCEPT ![c] = LastBytes(@, keep)]
           /\ last_decode_time' = [last_decode_time EXCEPT ![c] = now[c]]
           /\ decodes' = [decodes EXCEPT ![c][n].done = TRUE, ![c][n].text = t]
           /\ IF ~Truthy(t)
              THEN /\ hpc' = [hpc EXCEPT ![c] = "wait"]
                   /\ UNCHANGED <<conn, text, exc, outbox>>
              ELSE IF conn[c] = "open"
              THEN /\ outbox' = [outbox EXCEPT ![c] =
                                    Append(@, Transcription(t, Len(tasks[c]) + 1))]
                   /\ hpc' = [hpc EXCEPT ![c] = "sending"]
                   /\ text' = [text EXCEPT ![c] = t]
                   /\ UNCHANGED <<conn, exc>>
              ELSE /\ Fail(c, "ConnectionClosed")
                   /\ UNCHANGED <<text, outbox>>
    /\ UNCHANGED <<clock, now, nAudio, nSkip, tasks, connected_at,
                               reported_rate>>

\* decode_pcm raises (wave, soundfile or the recognizer): nothing catches it
DecodeRaise(c) ==
    /\ hpc[c] = "decoding"
    /\ Fail(c, "DecodeError")
    /\ UNCHANGED <<clock, buffer, last_decode_time, now, text,
                   nAudio, nSkip, outbox, tasks, connected_at, decodes,
                   reported_rate>>

\* a task as asyncio.create_task leaves it: not started yet
NewTask(t) == [text |-> t, st |-> "created", cause |-> "none", calls |-> 0]

\* `await ws.send(...)` returns and line 105 creates the enrichment task
SendReturn(c) ==
    /\ hpc[c] = "sending"
    /\ ~LoopHeld
    /\ tasks' = [tasks EXCEPT ![c] = Append(@, NewTask(text[c]))]
    /\ hpc' = [hpc EXCEPT ![c] = "wait"]
    /\ text' = [text EXCEPT ![c] = <<>>]
    /\ UNCHANGED <<clock, conn, buffer, last_decode_time, now, exc,
                   nAudio, nSkip, outbox, connected_at, decodes,
                   reported_rate>>

\* `async for` finds the connection closed and no message left: handle returns
LoopEnd(c) ==
    /\ hpc[c] = "wait"
    /\ conn[c] = "closed"
    /\ ~LoopHeld
    /\ hpc' = [hpc EXCEPT ![c] = "done"]
    /\ UNCHANGED <<clock, conn, buffer, last_decode_time, now, text, exc,
                   nAudio, nSkip, outbox, tasks, connected_at, decodes,
                   reported_rate>>

\* ------------------------------------------------------------- enrichment task
\* the server-to-client messages of lines 205, 354 and 379; of the JSON body
\* only the context (the "raw" of an error message) is kept
ContextPartial(ctx, i) == [type |-> "context_partial", body |-> ctx, task |-> i]
ContextError(i) == [type |-> "context_partial_error", body |-> FALLBACK, task |-> i]

TrySendTwice(c, m) ==
    outbox' = [outbox EXCEPT ![c] = IF conn[c] = "open" THEN @ \o <<m, m>> ELSE @]
\* `try: await websocket.send(m) except Exception: ...`: the message goes out
\* on an open connection, the exception of a closed one is swallowed
TrySend(c, m) ==
    outbox' = [outbox EXCEPT ![c] = IF conn[c] = "open" THEN Append(@, m) ELSE @]

\* what lines 186-195 and 217-222 can find when the task runs
LlmEnvs == {"nokey", "ctorfail", "ok"}

\* the task's first run: lines 138-238, up to the awaited LLM call
TaskStart(c, i, env) ==
    /\ i \in 1..Len(tasks[c])
    /\ tasks[c][i].st = "created"
    /\ ~LoopHeld
    /\ LET t == tasks[c][i]
           combined == Strip(t.text)
       IN  IF ~Truthy(t.text) \/ ~Truthy(combined)
           THEN /\ tasks' = [tasks EXCEPT ![c][i].st = "done", ![c][i].cause = "empty"]
                /\ UNCHANGED outbox
           ELSE IF env = "nokey"
           THEN /\ TrySend(c, ContextPartial(FALLBACK, i))
                /\ tasks' = [tasks EXCEPT ![c][i].st = "done", ![c][i].cause = "nokey"]
           ELSE IF env = "ctorfail"
           THEN /\ tasks' = [tasks EXCEPT ![c][i].st = "done",
                                          ![c][i].cause = "ctorfail"]
                /\ UNCHANGED outbox
           ELSE /\ tasks' = [tasks EXCEPT ![c][i].st = "requesting",
                                          ![c][i].calls = @ + 1]
                /\ UNCHANGED outbox
    /\ UNCHANGED <<clock, hpc, conn, buffer, last_decode_time, now, text, exc,
                   nAudio, nSkip, connected_at, decodes,
                   reported_rate>>

TaskLLMRaiseRetry(c, i) ==
    /\ i \in 1..Len(tasks[c])
    /\ tasks[c][i].st = "requesting"
    /\ tasks[c][i].calls < 2
    /\ ~LoopHeld
    /\ tasks' = [tasks EXCEPT ![c][i].st = "created"]
    /\ UNCHANGED <<clock, hpc, conn, buffer, last_decode_time, now, text, exc,
                   nAudio, nSkip, outbox, connected_at, decodes,
                   reported_rate>>
\* the LLM call raises: lines 239-242
TaskLLMRaise(c, i) ==
    /\ i \in 1..Len(tasks[c])
    /\ tasks[c][i].st = "requesting"
    /\ ~LoopHeld
    /\ tasks' = [tasks EXCEPT ![c][i].st = "done", ![c][i].cause = "apifail"]
    /\ UNCHANGED <<clock, hpc, conn, buffer, last_decode_time, now, text, exc,
                   nAudio, nSkip, outbox, connected_at, decodes,
                   reported_rate>>

\* the LLM call returns r: lines 244-383
TaskLLMReturn(c, i, r) ==
    /\ i \in 1..Len(tasks[c])
    /\ tasks[c][i].st = "requesting"
    /\ ~LoopHeld
    /\ LET x == ExtractText(r)
           cv == ContextVal(StripFence(x.s))
       IN  IF ~x.isstr
           THEN \* text_str.startswith raises AttributeError out of the task
                /\ tasks' = [tasks EXCEPT ![c][i].st = "raised",
                                          ![c][i].cause = "badtext"]
                /\ UNCHANGED outbox
           ELSE IF cv.isnone
           THEN /\ TrySend(c, ContextError(i))
                /\ tasks' = [tasks EXCEPT ![c][i].st = "done", ![c][i].cause = "noctx"]
           ELSE /\ TrySend(c, ContextPartial(ContextOut(cv), i))
                /\ tasks' = [tasks EXCEPT ![c][i].st = "done", ![c][i].cause = "ok"]
    /\ UNCHANGED <<clock, hpc, conn, buffer, last_decode_time, now, text, exc,
                   nAudio, nSkip, connected_at, decodes,
                   reported_rate>>

\* ------------------------------------------------------------- specification
\* the server with the clients CS, which send messages from MS, while the
\* recognizer yields texts from RS and the LLM endpoint completions from LS
NextOf(CS, MS, RS, LS) ==
    \/ Tick
    \/ \E c \in CS : Connect(c)
    \/ \E c \in CS : Disconnect(c)
    \/ \E c \in CS : \E m \in MS : Recv(c, m)
    \/ \E c \in CS : \E raw \in RS : DecodeReturn(c, raw)
    \/ \E c \in CS : DecodeRaise(c)
    \/ \E c \in CS : SendReturn(c)
    \/ \E c \in CS : LoopEnd(c)
    \/ \E c \in CS : \E i \in 1..MaxMsgs : \E env \in LlmEnvs : TaskStart(c, i, env)
    \/ \E c \in CS : \E i \in 1..MaxMsgs : TaskLLMRaise(c, i)
    \/ \E c \in CS : \E i \in 1..MaxMsgs : \E r \in LS : TaskLLMReturn(c, i, r)

Next == NextOf({1}, Msgs, RawTexts, Responses)

\* one client
Spec == Init /\ [][Next]_vars

\* two clients at once; each sends a minimum window, a metadata message or
\* text that is not JSON, the recognizer hears nothing or one word, and the
\* LLM answers with the object asked for
MsgsMulti ==
    { Msg(TRUE, TRUE, "audio", TRUE, TRUE,
          MIN_DURATION_SECONDS * SAMPLE_RATE * SAMPLE_WIDTH),
      Metadata(SAMPLE_RATE),
      Msg(FALSE, FALSE, "none", FALSE, FALSE, 0) }
TextsMulti == {<<>>, <<"hello">>}
ResponsesMulti == {Resp("sdk", J_CONTEXT)}

NextMulti == NextOf(Conns, MsgsMulti, TextsMulti, ResponsesMulti)

SpecMulti == Init /\ [][NextMulti]_vars

\* the event loop runs every task that is ready, a blocking decode_pcm call
\* comes back (returns or raises), and so does the LLM call on its thread
TaskStep ==
    \E c \in {1} : \E i \in 1..MaxMsgs :
        \/ \E env \in LlmEnvs : TaskStart(c, i, env)
        \/ TaskLLMRaise(c, i)
        \/ \E r \in Responses : TaskLLMReturn(c, i, r)
DecodeEnd ==
    \E c \in {1} : DecodeRaise(c) \/ \E raw \in RawTexts : DecodeReturn(c, raw)

\* one client, with calls that come back and tasks that get their turn
SpecLive == Init /\ [][Next]_vars /\ WF_vars(TaskStep) /\ WF_vars(DecodeEnd)

\* ------------------------------------------------------------- claims
MinBytes == MIN_DURATION_SECONDS * SAMPLE_RATE * SAMPLE_WIDTH
OverlapBytes == OVERLAP_SECONDS * SAMPLE_RATE * SAMPLE_WIDTH

\* the transcription messages sent on c, in order
Transcripts(c) == SelectSeq(outbox[c], LAMBDA m : m.type = "transcription")
\* the decodes of c that returned, and those that returned a non-empty text
Returned(c) == SelectSeq(decodes[c], LAMBDA d : d.done)
Spoken(c) == SelectSeq(decodes[c], LAMBDA d : d.done /\ d.text # <<>>)
\* the messages an enrichment task sent on c for its i-th transcript
FromTask(c, i) ==
    SelectSeq(outbox[c], LAMBDA m : m.type # "transcription" /\ m.task = i)

\* C1: on every connection two consecutive firings of the decode trigger, and
\* the start of the connection and the first firing, are at least
\* DECODE_INTERVAL_SECONDS apart on the handler's clock, and the trigger never
\* fires on a buffer shorter than the minimum duration (64000 bytes).
C1_DecodeRateLimited ==
    \A c \in Conns : \A k \in 1..Len(decodes[c]) :
        /\ decodes[c][k].len >= MinBytes
        /\ decodes[c][k].at
             - (IF k = 1 THEN connected_at[c] ELSE decodes[c][k - 1].at)
           >= DECODE_INTERVAL_SECONDS

\* a connection on which the trigger has fired twice
C1_Witness == \E c \in Conns : Len(decodes[c]) >= 2

\* C2: when a decode returns, the buffer it leaves is as long as the overlap
\* (32000 bytes), or as long as the decoded buffer if that was shorter.
C2_TrimToOverlap ==
    [][\A c \in Conns :
          (hpc[c] = "decoding" /\ hpc'[c] # "decoding" /\ exc'[c] # "DecodeError")
          => BufLen(buffer'[c]) = Min(OverlapBytes, BufLen(buffer[c]))]_vars

\* a decode has just returned and left exactly the overlap of a longer buffer
C2_Witness ==
    \E c \in Conns :
        /\ hpc[c] = "sending"
        /\ BufLen(buffer[c]) = OverlapBytes
        /\ decodes[c][Len(decodes[c])].len > OverlapBytes

\* C3: the length of every connection's buffer is always a multiple of the
\* sample width (2 bytes), whatever the byte lengths of the payloads.
C3_BufferSampleAligned ==
    \A c \in Conns : BufLen(buffer[c]) % SAMPLE_WIDTH = 0

\* C4: a malformed inbound message is dropped: handling it leaves the handler
\* in its message loop with buffer and last-decode time unchanged.
C4_MalformedDropped ==
    [][\A c \in Conns : \A m \in MalformedMsgs :
          Recv(c, m) => /\ hpc'[c] = "wait"
                        /\ exc'[c] = "none"
                        /\ buffer'[c] = buffer[c]
                        /\ last_decode_time'[c] = last_decode_time[c]]_vars

\* C5: handling a well-formed message whose type is not "audio" leaves buffer
\* and last-decode time unchanged, fires no decode, starts no enrichment task
\* and sends nothing.
C5_NonAudioIgnored ==
    [][\A c \in Conns : \A m \in OtherMsgs :
          Recv(c, m) => /\ UNCHANGED <<buffer, last_decode_time, outbox, tasks,
                                       decodes, exc>>
                        /\ hpc'[c] = "wait"]_vars

\* a connection that skipped a message while audio was buffered
C5_Witness ==
    \E c \in Conns : nSkip[c] > 0 /\ buffer[c] # <<>> /\ hpc[c] = "wait"

C7_EnrichAfterTranscript ==
    \A c \in Conns :
        /\ Len(tasks[c]) <= Len(Transcripts(c))
        /\ \A i \in 1..Len(tasks[c]) :
              /\ tasks[c][i].text # <<>>
              /\ tasks[c][i].text = Spoken(c)[i].text
              /\ Transcripts(c)[i] = Transcription(tasks[c][i].text, i)
        /\ \A k \in 1..Len(outbox[c]) :
              outbox[c][k].type = "context_partial" =>
                  \E j \in 1..(k - 1) :
                      /\ outbox[c][j].type = "transcription"
                      /\ outbox[c][j].task = outbox[c][k].task

\* a context_partial message has followed its transcription message
C7_Witness ==
    \E c \in Conns : \E k \in 1..Len(outbox[c]) :
        /\ outbox[c][k].type = "context_partial"
        /\ tasks[c][outbox[c][k].task].st = "done"

\* C8: whatever the LLM returns, an enrichment task sends at most one message,
\* a context_partial whose context is a non-empty string (possibly the literal
\* fallback), and never the stringified response.
C8_OutcomeClasses ==
    \A c \in Conns :
        /\ \A i \in 1..Len(tasks[c]) : Len(FromTask(c, i)) <= 1
        /\ \A k \in 1..Len(outbox[c]) :
              outbox[c][k].type # "transcription" =>
                  /\ outbox[c][k].type = "context_partial"
                  /\ outbox[c][k].body # <<>>
                  /\ \A r \in AllResponses : outbox[c][k].body # StrOf(r)

FailureCauses == {"nokey", "ctorfail", "apifail", "noctx"}

\* C9 as stated: a failed enrichment call sends no context_partial message.
C9_FailureSendsNoContext ==
    \A c \in Conns : \A i \in 1..Len(tasks[c]) :
        tasks[c][i].cause \in FailureCauses =>
            \A k \in 1..Len(FromTask(c, i)) :
                FromTask(c, i)[k].type # "context_partial"

\* C9: a failed enrichment call is not retried and leaves the connection loop
\* alone.  After a client construction failure or an API failure it sends
\* nothing; when no context can be extracted it sends at most one
\* context_partial_error; when the credential or the client library is missing
\* it sends at most one context_partial, carrying the literal fallback.
C9_FailureOutcomes ==
    /\ [](\A c \in Conns : \A i \in 1..Len(tasks[c]) :
            LET t == tasks[c][i]
                M == FromTask(c, i)
            IN  /\ t.calls <= 1
                /\ t.cause \in {"ctorfail", "apifail"} => M = <<>>
                /\ t.cause = "noctx" =>
                       /\ Len(M) <= 1
                       /\ \A k \in 1..Len(M) : M[k] = ContextError(i)
                /\ t.cause = "nokey" =>
                       /\ Len(M) <= 1
                       /\ \A k \in 1..Len(M) : M[k] = ContextPartial(FALLBACK, i))
    /\ [][\A c \in Conns :
            (\E i \in 1..Len(tasks[c]) :
                 /\ tasks'[c][i].cause \in FailureCauses
                 /\ tasks[c][i].cause = "none")
            => UNCHANGED <<hpc, exc, conn, buffer, last_decode_time>>]_vars

\* after a failed LLM call, which sent nothing, the handler still waits for
\* messages on an open connection
C9_Witness ==
    \E c \in Conns : \E i \in 1..Len(tasks[c]) :
        /\ tasks[c][i].cause = "apifail"
        /\ hpc[c] = "wait"
        /\ conn[c] = "open"
        /\ FromTask(c, i) = <<>>

\* C10: while an enrichment task of a connection awaits its LLM call, the
\* connection's loop, when it waits for a message and no decode is running,
\* can take and append any audio message, and fires a decode on it once the
\* interval has passed.
C10_EnrichmentNonBlocking ==
    \A c \in Conns :
        ( /\ \E i \in 1..Len(tasks[c]) : tasks[c][i].st = "requesting"
          /\ hpc[c] = "wait"
          /\ \A d \in Conns : hpc[d] # "decoding"
          /\ MsgCount < MaxMsgs )
        => /\ \A m \in AudioMsgs :
                ENABLED (Recv(c, m) /\ buffer'[c] = Extend(buffer[c],
                                                    Payload(nAudio[c] + 1, m.len)))
           /\ clock - last_decode_time[c] >= DECODE_INTERVAL_SECONDS =>
                ENABLED (Recv(c, Msg(TRUE, TRUE, "audio", TRUE, TRUE, MinBytes))
                         /\ hpc'[c] = "decoding")

\* a decode fired on audio that arrived while an LLM call was in flight
C10_Witness ==
    \E c \in Conns :
        /\ \E i \in 1..Len(tasks[c]) : tasks[c][i].st = "requesting"
        /\ hpc[c] = "decoding"
        /\ Len(decodes[c]) >= 2

\* C11: while decode_pcm runs for a connection whose client is still there,
\* the connection's loop can take and append any further audio message.
C11_DecodeNonBlocking ==
    \A c \in Conns :
        (hpc[c] = "decoding" /\ conn[c] = "open" /\ MsgCount < MaxMsgs)
        => \A m \in AudioMsgs :
               ENABLED (Recv(c, m) /\ buffer'[c] = Extend(buffer[c],
                                                   Payload(nAudio[c] + 1, m.len)))

\* C12: a decode call that raises does not end the handler: no handler has
\* ended with the exception decode_pcm raised.
C12_DecodeFailureSurvived ==
    \A c \in Conns : ~(hpc[c] = "failed" /\ exc[c] = "DecodeError")

\* C13: a client that leaves around a decode raises no error out of the
\* handler: no handler has ended with the exception of a send on the closed
\* connection, and a task whose send met the closed connection ended normally.
C13_DisconnectHandled ==
    \A c \in Conns :
        /\ exc[c] # "ConnectionClosed"
        /\ \A i \in 1..Len(tasks[c]) :
               tasks[c][i].cause \in {"nokey", "noctx", "ok"}
               => tasks[c][i].st = "done"

\* the context_partial messages sent on c, and those of its i-th transcript
ContextPartials(c) == SelectSeq(outbox[c], LAMBDA m : m.type = "context_partial")
ContextPartialsOf(c, i) ==
    SelectSeq(outbox[c], LAMBDA m : m.type = "context_partial" /\ m.task = i)

Abs(x) == IF x < 0 THEN 0 - x ELSE x

\* C15: once the client has reported the capture rate r, an audio message of
\* n samples grows the buffer by n * SAMPLE_RATE / r samples, within one
\* sample: in bytes, | grown * r - len * SAMPLE_RATE | <= SAMPLE_WIDTH * r.
C15_ResampledToTarget ==
    [][\A c \in Conns : \A m \in AudioMsgs :
          (Recv(c, m) /\ reported_rate[c] # 0)
          => LET grown == BufLen(buffer'[c]) - BufLen(buffer[c])
             IN  Abs(grown * reported_rate[c] - m.len * SAMPLE_RATE)
                     <= SAMPLE_WIDTH * reported_rate[c]]_vars

\* a task that has ended: it returned, or an exception ended it
TaskEnded(t) == t.st \in {"done", "raised"}

\* C16 as stated: every task issues at most one LLM request and reaches its
\* end only through the request (not started -> requesting -> ended).
C16_EndsThroughRequest ==
    \A c \in Conns : \A i \in 1..Len(tasks[c]) :
        /\ tasks[c][i].calls <= 1
        /\ TaskEnded(tasks[c][i]) => tasks[c][i].calls = 1

\* C16: every task issues at most one LLM request; it moves only from not
\* started to requesting or straight to its end (no credential or library,
\* client construction failure), and from requesting to its end, never back;
\* no step of a task changes the state of the handler; and every task created
\* reaches its end.
C16_TaskLifecycle ==
    /\ [](\A c \in Conns : \A i \in 1..Len(tasks[c]) :
             /\ tasks[c][i].calls <= 1
             /\ tasks[c][i].st = "requesting" => tasks[c][i].calls = 1
             /\ tasks[c][i].calls = 1 => tasks[c][i].st # "created")
    /\ [][\A c \in Conns : \A i \in 1..Len(tasks[c]) :
             tasks'[c][i] # tasks[c][i]
             => /\ <<tasks[c][i].st, tasks'[c][i].st>> \in
                       { <<"created", "requesting">>, <<"created", "done">>,
                         <<"requesting", "done">>, <<"requesting", "raised">> }
                /\ tasks'[c][i].calls - tasks[c][i].calls =
                       (IF tasks'[c][i].st = "requesting" THEN 1 ELSE 0)
                /\ UNCHANGED <<hpc, exc, conn, buffer, last_decode_time>>]_vars
    /\ \A c \in {1} : \A i \in 1..MaxMsgs :
           (Len(tasks[c]) >= i) ~> (Len(tasks[c]) >= i /\ TaskEnded(tasks[c][i]))

\* one task ended after its request, another ended without making one
C16_Witness ==
    \E c \in Conns : \E i, j \in 1..Len(tasks[c]) :
        /\ TaskEnded(tasks[c][i]) /\ tasks[c][i].calls = 1
        /\ TaskEnded(tasks[c][j]) /\ tasks[c][j].calls = 0

\* s holds the last bytes of b: the same bytes of the same messages, up to
\* the end of b, the first of them possibly cut at its front
IsSuffix(s, b) ==
    /\ Len(s) <= Len(b)
    /\ \A j \in 1..Len(s) :
           LET k == Len(b) - Len(s) + j
           IN  /\ s[j].msg = b[k].msg
               /\ s[j].hi = b[k].hi
               /\ IF j = 1 THEN s[j].lo >= b[k].lo ELSE s[j].lo = b[k].lo

\* C17: an audio message leaves the buffer equal to the old buffer followed by
\* its payload; when it fires a decode, that whole buffer is the decode window;
\* and the decode leaves the last OverlapBytes bytes of the window.
C17_AppendThenKeepSuffix ==
    [][\A c \in Conns :
          /\ \A m \in AudioMsgs :
                Recv(c, m)
                => /\ buffer'[c] = buffer[c] \o Payload(nAudio[c] + 1, m.len)
                   /\ hpc'[c] = "decoding" =>
                          decodes'[c][Len(decodes'[c])].len = BufLen(buffer'[c])
          /\ \A raw \in RawTexts :
                DecodeReturn(c, raw)
                => /\ decodes[c][Len(decodes[c])].len = BufLen(buffer[c])
                   /\ IsSuffix(buffer'[c], buffer[c])
                   /\ BufLen(buffer'[c]) = OverlapBytes]_vars

\* a decode cut the buffer inside a message, and audio was appended after it
C17_Witness ==
    \E c \in Conns :
        /\ Len(Returned(c)) >= 1
        /\ Len(buffer[c]) >= 2
        /\ buffer[c][1].lo > 0
        /\ BufLen(buffer[c]) > OverlapBytes

\* C18: the buffer and the last-decode time of a connection change only in
\* steps of that connection's own handler (its start, a message it takes, its
\* decode returning), and a step that changes an enrichment task changes no
\* connection's buffer or last-decode time.
C18_NoSharedState ==
    [][/\ \A c \in Conns :
            (buffer'[c] # buffer[c] \/ last_decode_time'[c] # last_decode_time[c])
            => \/ Connect(c)
               \/ \E m \in Msgs : Recv(c, m)
               \/ \E raw \in RawTexts : DecodeReturn(c, raw)
       /\ (tasks' # tasks /\ \A c \in Conns : Len(tasks'[c]) = Len(tasks[c]))
            => UNCHANGED <<buffer, last_decode_time>>]_vars

\* two connections hold different audio and have decoded at different times,
\* and an enrichment task of one of them has ended
C18_Witness ==
    /\ buffer[1] # <<>> /\ buffer[2] # <<>>
    /\ BufLen(buffer[1]) # BufLen(buffer[2])
    /\ last_decode_time[1] # last_decode_time[2]
    /\ \E c \in Conns : \E i \in 1..Len(tasks[c]) : tasks[c][i].st = "done"

\* the connections whose handler is inside decode_pcm
Decoding == {c \in Conns : hpc[c] = "decoding"}

\* C19: at most one decode_pcm call is in progress across all connections,
\* and while one is, no step changes an enrichment task or anything of
\* another connection: its handler's position, buffer, timing, counters,
\* connection state or sent messages.
C19_DecodesSerialized ==
    /\ [](Cardinality(Decoding) <= 1)
    /\ [][\A c \in Decoding :
             /\ tasks' = tasks
             /\ \A d \in Conns \ {c} :
                   /\ hpc'[d] = hpc[d] /\ conn'[d] = conn[d] /\ exc'[d] = exc[d]
                   /\ buffer'[d] = buffer[d]
                   /\ last_decode_time'[d] = last_decode_time[d]
                   /\ now'[d] = now[d]
                   /\ nAudio'[d] = nAudio[d] /\ nSkip'[d] = nSkip[d]
                   /\ outbox'[d] = outbox[d]
                   /\ decodes'[d] = decodes[d]]_vars

\* a decode runs for one connection while another, open and past its own
\* first decode, waits for its next message with an enrichment task not yet
\* started
C19_Witness ==
    \E c, d \in Conns :
        /\ c # d
        /\ hpc[c] = "decoding"
        /\ hpc[d] = "wait" /\ conn[d] = "open"
        /\ Len(decodes[d]) >= 1
        /\ \E i \in 1..Len(tasks[d]) : tasks[d][i].st = "created"

\* C20: a decode that returns, whatever its text, leaves the last OverlapBytes
\* bytes of its window in the buffer and sets the last-decode time to the time
\* of the message that fired it; with an empty text it sends nothing and the
\* loop goes on; and the decode after one with an empty text fires a full
\* interval later or more.
C20_EmptyDecodeConsumes ==
    /\ [][\A c \in Conns : \A raw \in RawTexts :
             DecodeReturn(c, raw)
             => /\ IsSuffix(buffer'[c], buffer[c])
                /\ BufLen(buffer'[c]) = OverlapBytes
                /\ last_decode_time'[c] = decodes[c][Len(decodes[c])].at
                /\ ~Truthy(Strip(raw)) =>
                       /\ hpc'[c] = "wait"
                       /\ UNCHANGED <<outbox, tasks, conn, exc>>]_vars
    /\ [](\A c \in Conns : \A k \in 1..Len(decodes[c]) - 1 :
             decodes[c][k].text = <<>>
             => decodes[c][k + 1].at - decodes[c][k].at >= DECODE_INTERVAL_SECONDS)

\* a decode returned an empty text and a later decode has fired
C20_Witness ==
    \E c \in Conns :
        /\ Len(decodes[c]) >= 2
        /\ decodes[c][1].done /\ decodes[c][1].text = <<>>
        /\ hpc[c] = "decoding"

====
